---- MODULE Spec2Model ----
(***************************************************************************)
(* Model of the sandbox execution core of the SQL learning platform:       *)
(*   - SessionManager (backend/sandbox/session_manager.py) driven through  *)
(*     SandboxPool.execute_query_in_session and the session reset view;    *)
(*   - the key-value backend shared by Redis sessions and stateless runs   *)
(*     (backend/sandbox/executors/redis_executor.py, pool.execute_query).  *)
(* Every `with self._lock:` block of the manager is one atomic action; the *)
(* I/O the code performs outside the lock is a separate action, so every   *)
(* interleaving the lock allows is an interleaving of the model.           *)
(***************************************************************************)
EXTENDS Integers, Sequences, FiniteSets, TLC

\* ------------------------------------------------------------------
\* Bounds of the model
\* ------------------------------------------------------------------
\* session_manager.py:24 sets MAX_SESSIONS = 100; the cap is scaled down so
\* that a table at the cap can be enumerated.
MAX_SESSIONS == 1
NumThreads == 2
MaxObjs == 3
MaxTicks == 2
MaxCrashes == 1

\* ------------------------------------------------------------------
\* Program constants
\* ------------------------------------------------------------------
SESSION_TTL == 15 * 60
CLEANUP_INTERVAL == 60

Threads == 1..NumThreads
SessionIds == {"sid-x", "sid-y"}
Kinds == {"postgresql", "redis"}
UserNames == {"u1", "u2"}

\* A user id as the program holds it.  request.user.id is a UUID object;
\* str(uuid) is a different Python value that never compares equal to it.
None == [type |-> "none", val |-> ""]
Uuid(n) == [type |-> "uuid", val |-> n]
Users == {Uuid(n) : n \in UserNames}

\* The requests a worker thread may be handed.  Worker 1 serves the client u1
\* on sid-x; the other workers serve any client on any session id.
UsersOf(t) == IF t = 1 THEN {Uuid("u1")} ELSE Users
SessionIdsOf(t) == IF t = 1 THEN {"sid-x"} ELSE SessionIds

\* What the validator of the request's kind does with the `query` of the
\* request: it returns ("ok"), raises QueryBlockedError ("blocked", caught
\* by the pool), or, handed a JSON value that is no string, raises TypeError
\* or AttributeError ("raised", which the pool does not catch).
ValidatorOutcomes == {"ok", "blocked", "raised"}
Raised == <<"raised">>
Failed == <<"error">>

NoObj == 0
NoThread == 0
NoMeta == [present |-> FALSE, database_type |-> "", user_id |-> None, expires_at |-> 0]
ObjIds == 1..MaxObjs
\* An object id that holds no SandboxSession (never constructed, or collected
\* once nothing referred to it any more).
Free == [session_id |-> "", database_type |-> "", user_id |-> None, last_used_at |-> 0,
         isolation_id |-> 0, connected |-> FALSE, exec_lock |-> NoThread]

VARIABLES
    sessions,       \* SessionManager._sessions: session_id -> Session object (NoObj if absent)
    heap,           \* the SandboxSession objects, by object id (Free: not allocated)
    backend,        \* isolation objects (schema / database / key prefix) present on the backends
    meta,           \* session-redis: the records session:<id>
    session_redis,  \* SessionManager._session_redis is a connected client
    running,        \* SessionManager._running
    now,            \* time.time()
    ticks,          \* number of clock steps taken
    nextCleanup,    \* when the cleanup thread's sleep ends
    cleanupQueue,   \* _cleanup_expired: expired_sessions still to tear down
    crashes,        \* number of process losses so far
    nextIso,        \* isolation ids handed out so far (uuid4: each one is fresh)
    th,             \* the request each worker thread is serving and its locals
    store,          \* database 0 of the sandbox Redis server: key -> value
    kvLast,         \* the session that sent the last Redis command and the keys it touched
    st,             \* the stateless requests (pool.execute_query) in progress
    call,           \* the pure function applied last, with its arguments
    res             \* what it returned

mgrVars == <<sessions, heap, backend, meta, session_redis, running, now, ticks,
             nextCleanup, cleanupQueue, crashes, nextIso, th>>
kvVars == <<store, kvLast, st>>
fnVars == <<call, res>>
vars == <<mgrVars, kvVars, fnVars>>

IdleThread ==
    [pc |-> "idle", op |-> "none", session_id |-> "sid-x", database_type |-> "postgresql",
     user_id |-> None, old_session |-> NoObj, new_session |-> NoObj, ret |-> NoObj,
     session |-> NoObj, rebuilt |-> FALSE, result |-> "none", rows |-> "none"]

\* ------------------------------------------------------------------
\* Helpers
\* ------------------------------------------------------------------
\* `str(session.user_id) if session.user_id else None` followed by the JSON
\* round trip (a string stays a string, None stays null).
PyStr(u) == IF u.type = "none" THEN None ELSE [type |-> "str", val |-> u.val]

\* A faulty ownership test that refuses only anonymous callers: C2 must not
\* survive it.
NotOwner_AnonymousOnly(stored, caller) == stored # None /\ caller = None

\* The ownership test of get_or_create and execute: True when the caller is
\* refused.
NotOwner(stored, caller) == stored # None /\ (caller = None \/ stored # caller)

\* len(self._sessions)
TableSize(tab) == Cardinality({s \in SessionIds : tab[s] # NoObj})

\* redis GET / EXPIRE see a key only until its TTL has elapsed.
MetaLive(sid) == meta[sid].present /\ now < meta[sid].expires_at

\* _touch_redis_ttl
TouchRedisTtl(sid) ==
    IF session_redis /\ MetaLive(sid)
    THEN [meta EXCEPT ![sid].expires_at = now + SESSION_TTL]
    ELSE meta

\* _delete_meta_from_redis
DeleteMeta(m, sid) == IF session_redis THEN [m EXCEPT ![sid] = NoMeta] ELSE m

\* _save_meta_to_redis
SaveMeta(o) ==
    IF session_redis
    THEN [meta EXCEPT ![heap[o].session_id] =
            [present |-> TRUE, database_type |-> heap[o].database_type,
             user_id |-> PyStr(heap[o].user_id), expires_at |-> now + SESSION_TTL]]
    ELSE meta

\* _create_session: a fresh isolation id, the isolation object created on the
\* backend, the executor connected, schema and seed loaded.
NewIso == nextIso + 1
NewObjId == NewIso
NewSession(sid, db, owner) ==
    [session_id |-> sid, database_type |-> db, user_id |-> owner,
     last_used_at |-> now, isolation_id |-> NewIso, connected |-> TRUE,
     exec_lock |-> NoThread]

\* A faulty teardown that leaves the executor connected: C5 must not survive
\* it.
HeapAfterCleanup_StillConnected(h, o) == h

\* _cleanup_session_resources: executor disconnected, isolation object dropped.
HeapAfterCleanup(h, o) == [h EXCEPT ![o].connected = FALSE]
BackendAfterCleanup(b, o) == b \ {heap[o].isolation_id}

\* The objects something still refers to: the table, a thread's locals, the
\* cleanup thread's list.  Python frees every other SandboxSession.
Referenced(tab, thr, queue) ==
    {tab[s] : s \in SessionIds}
      \cup UNION {{thr[t].old_session, thr[t].new_session, thr[t].ret, thr[t].session} :
                    t \in Threads}
      \cup {queue[i] : i \in DOMAIN queue}
Collect(h, tab, thr, queue) ==
    [o \in ObjIds |-> IF o \in Referenced(tab, thr, queue) THEN h[o] ELSE Free]
\* ------------------------------------------------------------------
\* The sandbox Redis server and the executors that talk to it
\* ------------------------------------------------------------------
\* A key or argument is the sequence of its ':'-separated segments, so
\* f'{prefix}:{key}' is <<prefix>> \o key and "s_a:k" is <<"s_a", "k">>.
\* The isolation ids (key prefixes) of two live Redis sessions.
KvSessions == {"s_a", "s_b"}
\* What a client can type for a key: a plain name, or a name that spells
\* out another session's prefix.
RawTokens == {<<"k">>, <<"s_a", "k">>}
Star == <<"*">>
Val == <<"v">>
Hll == <<"hll">>
Nil == << >>
StatelessIds == {"r1", "r2"}
\* The queries of the stateless requests: one the validator accepts and one
\* it rejects.
StatelessQueries == {"GET", "FLUSHDB"}
PrefixKey(key_prefix, key) == IF key_prefix # "" THEN <<key_prefix>> \o key ELSE key
AllKeys == RawTokens \cup {PrefixKey(p, r) : p \in KvSessions, r \in RawTokens}
Values == {Val, Hll} \cup {<<r>> : r \in StatelessIds}

REDIS_ALLOWED_COMMANDS ==
    {"SET", "GET", "MSET", "MGET", "APPEND", "STRLEN", "INCR", "INCRBY",
     "INCRBYFLOAT", "DECR", "DECRBY", "SETNX", "SETEX", "PSETEX", "GETSET",
     "GETRANGE", "SETRANGE", "GETDEL",
     "DEL", "EXISTS", "EXPIRE", "EXPIREAT", "TTL", "PTTL", "PERSIST", "TYPE",
     "RENAME", "RENAMENX", "RANDOMKEY", "SCAN", "OBJECT", "KEYS",
     "HSET", "HGET", "HMSET", "HMGET", "HGETALL", "HDEL", "HEXISTS", "HKEYS",
     "HVALS", "HLEN", "HINCRBY", "HINCRBYFLOAT", "HSETNX", "HSCAN",
     "LPUSH", "RPUSH", "LPOP", "RPOP", "LRANGE", "LLEN", "LINDEX", "LSET",
     "LINSERT", "LREM", "LTRIM", "RPOPLPUSH", "LMOVE", "LPOS",
     "SADD", "SREM", "SMEMBERS", "SISMEMBER", "SCARD", "SUNION", "SINTER",
     "SDIFF", "SUNIONSTORE", "SINTERSTORE", "SDIFFSTORE", "SRANDMEMBER",
     "SPOP", "SMOVE", "SSCAN",
     "ZADD", "ZREM", "ZSCORE", "ZRANK", "ZREVRANK", "ZRANGE", "ZREVRANGE",
     "ZRANGEBYSCORE", "ZREVRANGEBYSCORE", "ZCARD", "ZCOUNT", "ZINCRBY",
     "ZUNIONSTORE", "ZINTERSTORE", "ZRANGEBYLEX", "ZLEXCOUNT", "ZSCAN",
     "ZPOPMIN", "ZPOPMAX", "ZRANGESTORE", "ZMSCORE",
     "PFADD", "PFCOUNT", "PFMERGE",
     "XADD", "XLEN", "XRANGE", "XREVRANGE", "XREAD", "XINFO", "XTRIM",
     "PUBLISH", "SUBSCRIBE", "UNSUBSCRIBE",
     "GEOADD", "GEODIST", "GEOHASH", "GEOPOS", "GEORADIUS",
     "GEORADIUSBYMEMBER", "GEOSEARCH", "GEOSEARCHSTORE",
     "PING", "ECHO", "DBSIZE", "TIME", "MULTI", "EXEC", "DISCARD", "WATCH",
     "UNWATCH", "SORT", "INFO"}

\* validate_redis: TRUE when the command passes the whitelist.
validate_redis(command) == command \in REDIS_ALLOWED_COMMANDS

\* The diagnostic validate_redis raises for a command it rejects: the entry
\* of dangerous_map (the key of MESSAGES it names), else the default text
\* that quotes the command.
dangerous_map ==
    [c \in {"CONFIG", "BGSAVE", "BGREWRITEAOF", "SAVE", "CLUSTER", "SELECT", "WAIT",
            "RESTORE"} |-> "server_config"]
    @@ [c \in {"FLUSHALL", "FLUSHDB", "SHUTDOWN", "SWAPDB"} |-> "destructive"]
    @@ [c \in {"SLAVEOF", "REPLICAOF"} |-> "replication"]
    @@ [c \in {"DEBUG", "SCRIPT", "EVAL", "EVALSHA", "FUNCTION", "FCALL"} |-> "system_cmd"]
    @@ [c \in {"MODULE"} |-> "extension"]
    @@ [c \in {"ACL", "AUTH"} |-> "auth"]
    @@ [c \in {"MIGRATE"} |-> "network"]
    @@ [c \in {"CLIENT", "COMMAND", "LATENCY", "MEMORY", "SLOWLOG", "MONITOR", "DUMP"}
          |-> "info_leak"]
RedisDiagnostic(command) ==
    IF command \in DOMAIN dangerous_map THEN <<dangerous_map[command]>>
    ELSE <<"not available", command>>

NO_KEY_COMMANDS ==
    {"PING", "ECHO", "INFO", "DBSIZE", "TIME", "CONFIG", "CLIENT", "COMMAND",
     "MULTI", "EXEC", "DISCARD", "SELECT", "QUIT", "AUTH", "RANDOMKEY",
     "WAIT", "FLUSHDB", "FLUSHALL"}
ALL_KEYS_COMMANDS ==
    {"DEL", "EXISTS", "UNLINK", "MGET", "PFCOUNT", "SDIFF", "SINTER",
     "SUNION", "WATCH"}
KV_PAIR_COMMANDS == {"MSET", "MSETNX"}
TWO_KEY_COMMANDS ==
    {"RENAME", "RENAMENX", "RPOPLPUSH", "LMOVE", "SMOVE", "SDIFFSTORE",
     "SINTERSTORE", "SUNIONSTORE"}

\* RedisExecutor._prefix_args (positions are 1-based here, 0-based there).
PrefixArgs(key_prefix, cmd, args) ==
    IF key_prefix = "" \/ args = << >> THEN args
    ELSE IF cmd \in NO_KEY_COMMANDS THEN args
    ELSE IF cmd = "KEYS"
        THEN [i \in 1..Len(args) |-> IF i = 1 THEN <<key_prefix>> \o args[i] ELSE args[i]]
    ELSE IF cmd \in ALL_KEYS_COMMANDS
        THEN [i \in 1..Len(args) |-> PrefixKey(key_prefix, args[i])]
    ELSE IF cmd \in KV_PAIR_COMMANDS
        THEN [i \in 1..Len(args) |->
                 IF i % 2 = 1 THEN PrefixKey(key_prefix, args[i]) ELSE args[i]]
    ELSE IF cmd \in TWO_KEY_COMMANDS
        THEN [i \in 1..Len(args) |->
                 IF i <= 2 THEN PrefixKey(key_prefix, args[i]) ELSE args[i]]
    ELSE [i \in 1..Len(args) |->
             IF i = 1 THEN PrefixKey(key_prefix, args[i]) ELSE args[i]]

\* The command lines clients send in this model, each with a valid arity.
CommandLines ==
    {[cmd |-> c, args |-> << >>] : c \in {"PING", "RANDOMKEY", "FLUSHDB"}}
    \cup {[cmd |-> "KEYS", args |-> <<Star>>]}
    \cup {[cmd |-> c, args |-> <<k>>] : c \in {"GET", "DEL"}, k \in RawTokens}
    \cup {[cmd |-> c, args |-> <<k, Val>>] : c \in {"SET", "MSET"}, k \in RawTokens}
    \cup {[cmd |-> c, args |-> <<a, b>>] :
             c \in {"RENAME", "PFMERGE", "DEL"}, a \in RawTokens, b \in RawTokens}

\* The Redis server: which of a command's arguments it takes as keys ...
StartsWith(k, p) == Len(k) >= Len(p) /\ SubSeq(k, 1, Len(p)) = p
Match(pattern, k) ==
    IF pattern[Len(pattern)] = "*"
    THEN Len(k) >= Len(pattern) /\ StartsWith(k, SubSeq(pattern, 1, Len(pattern) - 1))
    ELSE k = pattern
Existing(db) == {k \in AllKeys : db[k] # Nil}
Range(args) == {args[i] : i \in 1..Len(args)}
\* ... and what the command does to database 0: the new database, the keys
\* it read or wrote, and the value it replies with (GET only).
RedisExec(db, cmd, a) ==
    CASE cmd = "GET" -> [db |-> db, touched |-> {a[1]}, reply |-> db[a[1]]]
      [] cmd \in {"SET", "MSET"} ->
           [db |-> [k \in AllKeys |->
                       IF \E i \in 1..Len(a) : i % 2 = 1 /\ a[i] = k
                       THEN a[(CHOOSE i \in 1..Len(a) : i % 2 = 1 /\ a[i] = k) + 1]
                       ELSE db[k]],
            touched |-> {a[i] : i \in {j \in 1..Len(a) : j % 2 = 1}},
            reply |-> Nil]
      [] cmd = "DEL" ->
           [db |-> [k \in AllKeys |-> IF k \in Range(a) THEN Nil ELSE db[k]],
            touched |-> Range(a), reply |-> Nil]
      [] cmd = "RENAME" ->
           [db |-> IF db[a[1]] = Nil THEN db
                   ELSE [k \in AllKeys |->
                            IF k = a[2] THEN db[a[1]]
                            ELSE IF k = a[1] THEN Nil ELSE db[k]],
            touched |-> {a[1], a[2]}, reply |-> Nil]
      [] cmd = "PFMERGE" ->
           [db |-> [db EXCEPT ![a[1]] = Hll], touched |-> Range(a), reply |-> Nil]
      [] cmd = "KEYS" ->
           [db |-> db, touched |-> {k \in Existing(db) : Match(a[1], k)}, reply |-> Nil]
      [] cmd = "RANDOMKEY" ->
           [db |-> db, touched |-> Existing(db), reply |-> Nil]
      [] cmd = "FLUSHDB" ->
           [db |-> [k \in AllKeys |-> Nil], touched |-> Existing(db), reply |-> Nil]
      [] OTHER -> [db |-> db, touched |-> {}, reply |-> Nil]

\* No pure function has been applied yet.
NoCall == [fn |-> "none"]

NoCommand == [session |-> "", touched |-> {}]
NoLine == [cmd |-> "", args |-> << >>]
\* The seed texts a stateless request r may bring: one line each.
SeedLines(r) == {[cmd |-> "SET", args |-> <<(<<"k">>), <<r>>>>],
                 [cmd |-> "FLUSHDB", args |-> << >>]}
IdleStateless ==
    [pc |-> "idle", query |-> "", seed |-> NoLine, executor |-> "none", sent |-> {},
     saw |-> Nil, result |-> Nil]

\* Two Redis sessions are live (their executors carry the prefixes in
\* KvSessions) and no stateless request is in progress; database 0 is empty.
InitKV ==
    /\ store = [k \in AllKeys |-> Nil]
    /\ kvLast = NoCommand
    /\ st = [r \in StatelessIds |-> IdleStateless]

Init ==
    /\ sessions = [s \in SessionIds |-> NoObj]
    /\ heap = [o \in ObjIds |-> Free]
    /\ backend = {}
    /\ meta = [s \in SessionIds |-> NoMeta]
    /\ session_redis = FALSE
    /\ running = FALSE
    /\ now = 0
    /\ ticks = 0
    /\ nextCleanup = 0
    /\ cleanupQueue = << >>
    /\ crashes = 0
    /\ nextIso = 0
    /\ th = [t \in Threads |-> IdleThread]
    /\ InitKV
    /\ call = NoCall
    /\ res = NoCall

\* ------------------------------------------------------------------
\* SessionManager.start / process loss
\* ------------------------------------------------------------------
\* start(): sets _running, connects to session-redis (reachable here) and
\* starts the cleanup thread, which sleeps CLEANUP_INTERVAL before its first
\* pass.
Start ==
    /\ ~running
    /\ running' = TRUE
    /\ session_redis' = TRUE
    /\ nextCleanup' = now + CLEANUP_INTERVAL
    /\ UNCHANGED <<sessions, heap, backend, meta, now, ticks, cleanupQueue, crashes, nextIso, th>>
    /\ UNCHANGED <<kvVars, fnVars>>

\* The worker process dies (or the client is rebalanced to a fresh worker):
\* the in-memory table and every connection are gone, the backend objects
\* and the durable metadata stay.
Crash ==
    /\ crashes < MaxCrashes
    /\ crashes' = crashes + 1
    /\ sessions' = [s \in SessionIds |-> NoObj]
    /\ heap' = [o \in ObjIds |-> Free]
    /\ th' = [t \in Threads |-> IdleThread]
    /\ running' = FALSE
    /\ session_redis' = FALSE
    /\ cleanupQueue' = << >>
    /\ UNCHANGED <<backend, meta, now, ticks, nextCleanup, nextIso>>
    /\ UNCHANGED <<kvVars, fnVars>>

\* Time passes, by one cleanup interval or by just more than the session TTL.
\* A request is short against either, so the clock steps between requests.
\* While the cleanup thread runs, the clock cannot pass the end of its sleep,
\* nor advance while a cleanup pass is in progress.
Tick ==
    /\ ticks < MaxTicks
    /\ \A t \in Threads : th[t].pc = "idle"
    /\ \E d \in {CLEANUP_INTERVAL, SESSION_TTL + 1} :
         /\ running => (cleanupQueue = << >> /\ now + d <= nextCleanup)
         /\ now' = now + d
    /\ ticks' = ticks + 1
    /\ UNCHANGED <<sessions, heap, backend, meta, session_redis, running,
                   nextCleanup, cleanupQueue, crashes, nextIso, th>>
    /\ UNCHANGED <<kvVars, fnVars>>

\* A faulty entry point that goes on to the session manager with a rejected
\* query: C12 must not survive it.
ExecuteQueryInSession_ValidateLate(t) ==
    /\ th[t].pc = "idle"
    /\ \E sid \in SessionIdsOf(t), db \in Kinds, u \in UsersOf(t), v \in ValidatorOutcomes :
         th' = [th EXCEPT ![t] =
                  [IdleThread EXCEPT !.op = "exec", !.session_id = sid,
                                     !.database_type = db, !.user_id = u,
                                     !.pc = "goc_fast",
                                     !.result = IF v = "ok" THEN "none" ELSE v]]
    /\ UNCHANGED <<sessions, heap, backend, meta, session_redis, running, now, ticks,
                   nextCleanup, cleanupQueue, crashes, nextIso>>
    /\ UNCHANGED <<kvVars, fnVars>>

\* ------------------------------------------------------------------
\* SandboxPool.execute_query_in_session
\* ------------------------------------------------------------------
\* pool.py:258-274: the validator of the requested kind runs first; a blocked
\* query is answered without touching the manager.
ExecuteQueryInSession(t) ==
    /\ th[t].pc = "idle"
    /\ \E sid \in SessionIdsOf(t), db \in Kinds, u \in UsersOf(t), v \in ValidatorOutcomes :
         th' = [th EXCEPT ![t] =
                  [IdleThread EXCEPT !.op = "exec", !.session_id = sid,
                                     !.database_type = db, !.user_id = u,
                                     !.pc = IF v = "ok" THEN "goc_fast" ELSE "done",
                                     !.result = IF v = "ok" THEN "none" ELSE v]]
    /\ UNCHANGED <<sessions, heap, backend, meta, session_redis, running, now, ticks,
                   nextCleanup, cleanupQueue, crashes, nextIso>>
    /\ UNCHANGED <<kvVars, fnVars>>

\* get_or_create, first lock block (session_manager.py:129-152).
GetOrCreateFast(t) ==
    /\ th[t].pc = "goc_fast"
    /\ LET sid == th[t].session_id
           s == sessions[sid]
       IN IF s # NoObj /\ heap[s].database_type = th[t].database_type
          THEN IF NotOwner(heap[s].user_id, th[t].user_id)
               THEN /\ th' = [th EXCEPT ![t].pc = "done", ![t].result = "not_owner"]
                    /\ UNCHANGED <<sessions, heap, meta>>
               ELSE /\ heap' = [heap EXCEPT ![s].last_used_at = now]
                    /\ meta' = TouchRedisTtl(sid)
                    /\ th' = [th EXCEPT ![t].ret = s, ![t].pc = "exec_lookup"]
                    /\ UNCHANGED sessions
          ELSE LET popped == [sessions EXCEPT ![sid] = NoObj]
               IN /\ sessions' = popped
                  /\ IF TableSize(popped) >= MAX_SESSIONS
                     THEN th' = [th EXCEPT ![t].pc = "done", ![t].result = "too_many"]
                     ELSE th' = [th EXCEPT ![t].old_session = s,
                                           ![t].pc = IF s # NoObj THEN "goc_cleanup_old"
                                                     ELSE "goc_rebuild"]
                  /\ UNCHANGED <<heap, meta>>
    /\ UNCHANGED <<backend, session_redis, running, now, ticks, nextCleanup,
                   cleanupQueue, crashes, nextIso>>
    /\ UNCHANGED <<kvVars, fnVars>>

\* session_manager.py:155-157: the replaced session is torn down outside the lock.
GetOrCreateCleanupOld(t) ==
    /\ th[t].pc = "goc_cleanup_old"
    /\ heap' = HeapAfterCleanup(heap, th[t].old_session)
    /\ backend' = BackendAfterCleanup(backend, th[t].old_session)
    /\ meta' = DeleteMeta(meta, th[t].session_id)
    /\ th' = [th EXCEPT ![t].pc = "goc_rebuild"]
    /\ UNCHANGED <<sessions, session_redis, running, now, ticks, nextCleanup,
                   cleanupQueue, crashes, nextIso>>
    /\ UNCHANGED <<kvVars, fnVars>>

\* _rebuild_from_redis (session_manager.py:160, 663-691).
RebuildFromRedis(t) ==
    /\ th[t].pc = "goc_rebuild"
    /\ LET sid == th[t].session_id
       IN IF session_redis /\ MetaLive(sid)
             /\ meta[sid].database_type = th[t].database_type
          THEN /\ nextIso < MaxObjs
               /\ heap' = [heap EXCEPT ![NewObjId] =
                             NewSession(sid, meta[sid].database_type, meta[sid].user_id)]
               /\ backend' = backend \cup {NewIso}
               /\ nextIso' = NewIso
               /\ th' = [th EXCEPT ![t].new_session = NewObjId,
                                   ![t].pc = "goc_rebuild_register"]
          ELSE /\ th' = [th EXCEPT ![t].pc = "goc_create"]
               /\ UNCHANGED <<heap, backend, nextIso>>
    /\ UNCHANGED <<sessions, meta, session_redis, running, now, ticks, nextCleanup,
                   cleanupQueue, crashes>>
    /\ UNCHANGED <<kvVars, fnVars>>

\* session_manager.py:162-170.
GetOrCreateRebuildRegister(t) ==
    /\ th[t].pc = "goc_rebuild_register"
    /\ LET sid == th[t].session_id
           o == th[t].new_session
       IN IF sessions[sid] = NoObj
          THEN /\ sessions' = [sessions EXCEPT ![sid] = o]
               /\ th' = [th EXCEPT ![t].ret = o, ![t].rebuilt = TRUE,
                                   ![t].pc = "exec_lookup"]
               /\ UNCHANGED <<heap, backend>>
          ELSE /\ heap' = HeapAfterCleanup(heap, o)
               /\ backend' = BackendAfterCleanup(backend, o)
               /\ th' = [th EXCEPT ![t].ret = sessions[sid], ![t].pc = "exec_lookup"]
               /\ UNCHANGED sessions
    /\ UNCHANGED <<meta, session_redis, running, now, ticks, nextCleanup,
                   cleanupQueue, crashes, nextIso>>
    /\ UNCHANGED <<kvVars, fnVars>>

\* session_manager.py:173-178: _create_session and the owner stamp.
GetOrCreateCreate(t) ==
    /\ th[t].pc = "goc_create"
    /\ nextIso < MaxObjs
    /\ heap' = [heap EXCEPT ![NewObjId] =
                  NewSession(th[t].session_id, th[t].database_type, th[t].user_id)]
    /\ backend' = backend \cup {NewIso}
    /\ nextIso' = NewIso
    /\ th' = [th EXCEPT ![t].new_session = NewObjId, ![t].pc = "goc_register"]
    /\ UNCHANGED <<sessions, meta, session_redis, running, now, ticks, nextCleanup,
                   cleanupQueue, crashes>>
    /\ UNCHANGED <<kvVars, fnVars>>

\* session_manager.py:181-186.
GetOrCreateRegister(t) ==
    /\ th[t].pc = "goc_register"
    /\ LET sid == th[t].session_id
           o == th[t].new_session
       IN IF sessions[sid] # NoObj
          THEN /\ heap' = HeapAfterCleanup(heap, o)
               /\ backend' = BackendAfterCleanup(backend, o)
               /\ th' = [th EXCEPT ![t].ret = sessions[sid], ![t].pc = "exec_lookup"]
               /\ UNCHANGED sessions
          ELSE /\ sessions' = [sessions EXCEPT ![sid] = o]
               /\ th' = [th EXCEPT ![t].ret = o, ![t].pc = "goc_save_meta"]
               /\ UNCHANGED <<heap, backend>>
    /\ UNCHANGED <<meta, session_redis, running, now, ticks, nextCleanup,
                   cleanupQueue, crashes, nextIso>>
    /\ UNCHANGED <<kvVars, fnVars>>

\* session_manager.py:188-189.
GetOrCreateSaveMeta(t) ==
    /\ th[t].pc = "goc_save_meta"
    /\ meta' = SaveMeta(th[t].new_session)
    /\ th' = [th EXCEPT ![t].pc = "exec_lookup"]
    /\ UNCHANGED <<sessions, heap, backend, session_redis, running, now, ticks,
                   nextCleanup, cleanupQueue, crashes, nextIso>>
    /\ UNCHANGED <<kvVars, fnVars>>

\* A faulty execute that puts the session it was handed back into the table
\* when the id is gone: C21 must not survive it.
ExecuteLookup_Recreates(t) ==
    /\ th[t].pc = "exec_lookup"
    /\ LET s == sessions[th[t].session_id]
       IN IF s = NoObj
          THEN /\ th' = [th EXCEPT ![t].pc = "done", ![t].result = "SESSION_EXPIRED"]
               /\ sessions' = [sessions EXCEPT ![th[t].session_id] = th[t].ret]
               /\ UNCHANGED heap
          ELSE IF NotOwner(heap[s].user_id, th[t].user_id)
               THEN /\ th' = [th EXCEPT ![t].pc = "done", ![t].result = "not_owner"]
                    /\ UNCHANGED <<heap, sessions>>
               ELSE /\ heap' = [heap EXCEPT ![s].last_used_at = now]
                    /\ th' = [th EXCEPT ![t].session = s, ![t].pc = "exec_acquire"]
                    /\ UNCHANGED sessions
    /\ UNCHANGED <<backend, meta, session_redis, running, now, ticks,
                   nextCleanup, cleanupQueue, crashes, nextIso>>
    /\ UNCHANGED <<kvVars, fnVars>>

\* SessionManager.execute, the lock block (session_manager.py:197-211).
ExecuteLookup(t) ==
    /\ th[t].pc = "exec_lookup"
    /\ LET s == sessions[th[t].session_id]
       IN IF s = NoObj
          THEN /\ th' = [th EXCEPT ![t].pc = "done", ![t].result = "SESSION_EXPIRED"]
               /\ UNCHANGED heap
          ELSE IF NotOwner(heap[s].user_id, th[t].user_id)
               THEN /\ th' = [th EXCEPT ![t].pc = "done", ![t].result = "not_owner"]
                    /\ UNCHANGED heap
               ELSE /\ heap' = [heap EXCEPT ![s].last_used_at = now]
                    /\ th' = [th EXCEPT ![t].session = s, ![t].pc = "exec_acquire"]
    /\ UNCHANGED <<sessions, backend, meta, session_redis, running, now, ticks,
                   nextCleanup, cleanupQueue, crashes, nextIso>>
    /\ UNCHANGED <<kvVars, fnVars>>

\* A faulty execute that enters without taking the session's lock: C11 must
\* not survive it.
ExecuteAcquire_NoLock(t) ==
    /\ th[t].pc = "exec_acquire"
    /\ heap' = [heap EXCEPT ![th[t].session].exec_lock = t]
    /\ th' = [th EXCEPT ![t].pc = "exec_check"]
    /\ UNCHANGED <<sessions, backend, meta, session_redis, running, now, ticks,
                   nextCleanup, cleanupQueue, crashes, nextIso>>
    /\ UNCHANGED <<kvVars, fnVars>>

\* `with session._exec_lock:` (session_manager.py:215).
ExecuteAcquire(t) ==
    /\ th[t].pc = "exec_acquire"
    /\ heap[th[t].session].exec_lock = NoThread
    /\ heap' = [heap EXCEPT ![th[t].session].exec_lock = t]
    /\ th' = [th EXCEPT ![t].pc = "exec_check"]
    /\ UNCHANGED <<sessions, backend, meta, session_redis, running, now, ticks,
                   nextCleanup, cleanupQueue, crashes, nextIso>>
    /\ UNCHANGED <<kvVars, fnVars>>

\* session_manager.py:218-232: a disconnected executor is reconnected.
ExecuteCheck(t) ==
    /\ th[t].pc = "exec_check"
    /\ heap' = [heap EXCEPT ![th[t].session].connected = TRUE]
    /\ th' = [th EXCEPT ![t].pc = "exec_run"]
    /\ UNCHANGED <<sessions, backend, meta, session_redis, running, now, ticks,
                   nextCleanup, cleanupQueue, crashes, nextIso>>
    /\ UNCHANGED <<kvVars, fnVars>>

\* session_manager.py:234-240: executor.execute_query, then the lock is released.
ExecuteRun(t) ==
    /\ th[t].pc = "exec_run"
    /\ LET s == th[t].session
       IN /\ th' = [th EXCEPT ![t].pc = "done",
                              ![t].result = IF heap[s].connected THEN "ok" ELSE "error",
                              ![t].rows = IF heap[s].connected
                                             /\ heap[s].isolation_id \in backend
                                          THEN "seed" ELSE "none"]
          /\ heap' = [heap EXCEPT ![s].exec_lock = NoThread]
    /\ UNCHANGED <<sessions, backend, meta, session_redis, running, now, ticks,
                   nextCleanup, cleanupQueue, crashes, nextIso>>
    /\ UNCHANGED <<kvVars, fnVars>>

\* The response is sent; the worker thread takes the next request.
Finish(t) ==
    /\ th[t].pc = "done"
    /\ th' = [th EXCEPT ![t] = IdleThread]
    /\ heap' = Collect(heap, sessions, th', cleanupQueue)
    /\ UNCHANGED <<sessions, backend, meta, session_redis, running, now, ticks,
                   nextCleanup, cleanupQueue, crashes, nextIso>>
    /\ UNCHANGED <<kvVars, fnVars>>

\* ------------------------------------------------------------------
\* Session reset endpoint: SessionResetView.post -> pool.reset_session ->
\* SessionManager.destroy
\* ------------------------------------------------------------------
\* views.py:106-114: the view reads the table (no lock) and answers 403 when
\* the session has another owner.
SessionReset(t) ==
    /\ th[t].pc = "idle"
    /\ \E sid \in SessionIdsOf(t), u \in UsersOf(t) :
         LET s == sessions[sid]
             forbidden == s # NoObj /\ heap[s].user_id # None /\ heap[s].user_id # u
         IN th' = [th EXCEPT ![t] =
                     [IdleThread EXCEPT !.op = "destroy", !.session_id = sid, !.user_id = u,
                                        !.pc = IF forbidden THEN "done" ELSE "destroy_pop",
                                        !.result = IF forbidden THEN "forbidden" ELSE "none"]]
    /\ UNCHANGED <<sessions, heap, backend, meta, session_redis, running, now, ticks,
                   nextCleanup, cleanupQueue, crashes, nextIso>>
    /\ UNCHANGED <<kvVars, fnVars>>

\* destroy, the lock block (session_manager.py:245-246).
DestroyPop(t) ==
    /\ th[t].pc = "destroy_pop"
    /\ LET sid == th[t].session_id
       IN /\ sessions' = [sessions EXCEPT ![sid] = NoObj]
          /\ th' = [th EXCEPT ![t].old_session = sessions[sid],
                              ![t].pc = IF sessions[sid] # NoObj THEN "destroy_cleanup"
                                        ELSE "done",
                              ![t].result = IF sessions[sid] # NoObj THEN "none" ELSE "reset"]
    /\ UNCHANGED <<heap, backend, meta, session_redis, running, now, ticks,
                   nextCleanup, cleanupQueue, crashes, nextIso>>
    /\ UNCHANGED <<kvVars, fnVars>>

\* destroy, outside the lock (session_manager.py:248-251).
DestroyCleanup(t) ==
    /\ th[t].pc = "destroy_cleanup"
    /\ heap' = HeapAfterCleanup(heap, th[t].old_session)
    /\ backend' = BackendAfterCleanup(backend, th[t].old_session)
    /\ meta' = DeleteMeta(meta, th[t].session_id)
    /\ th' = [th EXCEPT ![t].pc = "done", ![t].result = "reset"]
    /\ UNCHANGED <<sessions, session_redis, running, now, ticks, nextCleanup,
                   cleanupQueue, crashes, nextIso>>
    /\ UNCHANGED <<kvVars, fnVars>>

\* ------------------------------------------------------------------
\* The cleanup thread (_cleanup_loop, _cleanup_expired)
\* ------------------------------------------------------------------
RECURSIVE SetToSeq(_)
SetToSeq(S) == IF S = {} THEN << >>
               ELSE LET x == CHOOSE y \in S : TRUE IN <<x>> \o SetToSeq(S \ {x})

\* now - s.last_used_at > SESSION_TTL
Expired(o) == now - heap[o].last_used_at > SESSION_TTL

\* _cleanup_expired, the lock block (session_manager.py:712-720), run when
\* the sleep of _cleanup_loop ends.
CleanupExpired ==
    /\ running
    /\ now = nextCleanup
    /\ cleanupQueue = << >>
    /\ LET expired_ids == {s \in SessionIds : sessions[s] # NoObj /\ Expired(sessions[s])}
       IN /\ sessions' = [s \in SessionIds |->
                            IF s \in expired_ids THEN NoObj ELSE sessions[s]]
          /\ cleanupQueue' = SetToSeq({sessions[s] : s \in expired_ids})
    /\ nextCleanup' = now + CLEANUP_INTERVAL
    /\ UNCHANGED <<heap, backend, meta, session_redis, running, now, ticks, crashes,
                   nextIso, th>>
    /\ UNCHANGED <<kvVars, fnVars>>

\* _cleanup_expired, outside the lock (session_manager.py:723-726): one
\* expired session is torn down and its metadata deleted.
CleanupOne ==
    /\ cleanupQueue # << >>
    /\ LET o == Head(cleanupQueue)
       IN /\ backend' = BackendAfterCleanup(backend, o)
          /\ meta' = DeleteMeta(meta, heap[o].session_id)
          /\ cleanupQueue' = Tail(cleanupQueue)
          /\ heap' = Collect(HeapAfterCleanup(heap, o), sessions, th, Tail(cleanupQueue))
    /\ UNCHANGED <<sessions, session_redis, running, now, ticks, nextCleanup, crashes,
                   nextIso, th>>
    /\ UNCHANGED <<kvVars, fnVars>>

\* ------------------------------------------------------------------
\* Specifications
\* ------------------------------------------------------------------
\* One worker thread serving requests.
Worker(t) ==
    \/ ExecuteQueryInSession(t)
    \/ GetOrCreateFast(t)
    \/ GetOrCreateCleanupOld(t)
    \/ RebuildFromRedis(t)
    \/ GetOrCreateRebuildRegister(t)
    \/ GetOrCreateCreate(t)
    \/ GetOrCreateRegister(t)
    \/ GetOrCreateSaveMeta(t)
    \/ ExecuteLookup(t)
    \/ ExecuteAcquire(t)
    \/ ExecuteCheck(t)
    \/ ExecuteRun(t)
    \/ SessionReset(t)
    \/ DestroyPop(t)
    \/ DestroyCleanup(t)
    \/ Finish(t)

\* Spec: the worker threads of one process race on the manager; no time
\* passes and the process survives.
Next ==
    \/ Start
    \/ \E t \in Threads : Worker(t)

Spec == Init /\ [][Next]_vars

\* SpecLife: the life of sessions over time with one worker thread: the
\* clock, the cleanup thread, the loss of the process and the recovery.
LifeWorker == NumThreads
NextLife ==
    \/ Start
    \/ Crash
    \/ Tick
    \/ CleanupExpired
    \/ CleanupOne
    \/ Worker(LifeWorker)

SpecLife == Init /\ [][NextLife]_vars

\* pool.execute_query_in_session for a live Redis session: validate, then
\* the session's executor prefixes the arguments and sends the command.
KvSessionCommand(s) ==
    /\ \E line \in CommandLines :
         IF ~validate_redis(line.cmd)
         THEN /\ kvLast' = [session |-> s, touched |-> {}]
              /\ store' = store
         ELSE LET r == RedisExec(store, line.cmd, PrefixArgs(s, line.cmd, line.args))
              IN /\ store' = r.db
                 /\ kvLast' = [session |-> s, touched |-> r.touched]
    /\ UNCHANGED <<st, mgrVars, fnVars>>

\* pool.execute_query (no session) for kind 'redis', step by step.  The
\* request r brings a seed from SeedLines(r) and a query from StatelessQueries.
\* A query validate_redis rejects ends the request with the diagnostic; a
\* query that is no string makes validate_redis raise AttributeError, which
\* leaves execute_query; otherwise get_executor connects an executor with
\* no key prefix to database 0, or fails, which the pool reports.
StatelessBegin(r) ==
    /\ st[r].pc = "idle"
    /\ \E q \in StatelessQueries, seed \in SeedLines(r), is_str \in BOOLEAN,
          fails \in BOOLEAN :
         st' = [st EXCEPT ![r] =
                  IF ~is_str
                  THEN [IdleStateless EXCEPT !.pc = "done", !.result = Raised]
                  ELSE IF ~validate_redis(q)
                  THEN [IdleStateless EXCEPT !.pc = "done", !.query = q,
                                             !.result = RedisDiagnostic(q)]
                  ELSE IF fails
                  THEN [IdleStateless EXCEPT !.pc = "done", !.query = q, !.result = Failed]
                  ELSE [IdleStateless EXCEPT !.pc = "reset", !.query = q, !.seed = seed,
                                             !.executor = "connected"]]
    /\ UNCHANGED <<store, kvLast, mgrVars, fnVars>>

\* executor.reset(): without a prefix, FLUSHDB.
StatelessReset(r) ==
    /\ st[r].pc = "reset"
    /\ store' = RedisExec(store, "FLUSHDB", << >>).db
    /\ st' = [st EXCEPT ![r].pc = "load"]
    /\ UNCHANGED <<kvLast, mgrVars, fnVars>>

\* executor.load_data(seed_sql): every line of the seed goes to
\* executor.execute_query as it came.  When it times out load_data reports
\* the failure, the pool returns that result and disconnects.
StatelessLoad(r) ==
    /\ st[r].pc = "load"
    /\ \E fails \in BOOLEAN :
         IF fails
         THEN /\ store' = store
              /\ st' = [st EXCEPT ![r].pc = "done", ![r].result = Failed,
                                  ![r].executor = "closed"]
         ELSE /\ store' = RedisExec(store, st[r].seed.cmd,
                                    PrefixArgs("", st[r].seed.cmd, st[r].seed.args)).db
              /\ st' = [st EXCEPT ![r].pc = "query", ![r].sent = @ \cup {st[r].seed.cmd}]
    /\ UNCHANGED <<kvLast, mgrVars, fnVars>>

\* executor.execute_query(query); a timeout is caught by the pool; finally
\* executor.disconnect().
StatelessQuery(r) ==
    /\ st[r].pc = "query"
    /\ \E fails \in BOOLEAN :
         LET reply == RedisExec(store, st[r].query,
                                PrefixArgs("", st[r].query, <<(<<"k">>)>>)).reply
         IN st' = [st EXCEPT ![r] =
                     IF fails
                     THEN [@ EXCEPT !.pc = "done", !.result = Failed, !.executor = "closed"]
                     ELSE [@ EXCEPT !.pc = "done", !.saw = reply, !.result = reply,
                                    !.sent = @ \cup {st[r].query},
                                    !.executor = "closed"]]
    /\ UNCHANGED <<store, kvLast, mgrVars, fnVars>>

\* The result goes back to the caller.
StatelessFinish(r) ==
    /\ st[r].pc = "done"
    /\ st' = [st EXCEPT ![r] = IdleStateless]
    /\ UNCHANGED <<store, kvLast, mgrVars, fnVars>>

\* _create_redis_session: the seed of a Redis session, "SET k v", is loaded
\* through the session's executor.
KvSessionLoad(s) ==
    /\ store' = RedisExec(store, "SET", PrefixArgs(s, "SET", <<(<<"k">>), Val>>)).db
    /\ store' # store
    /\ UNCHANGED <<kvLast, st, mgrVars, fnVars>>

\* SpecKV: the commands of two Redis sessions on database 0.
NextKV == \E s \in KvSessions : KvSessionCommand(s)

SpecKV == Init /\ [][NextKV]_vars

\* SpecStateless: two stateless requests run on database 0 while Redis
\* sessions load their data into it.
NextStateless ==
    \/ \E s \in KvSessions : KvSessionLoad(s)
    \/ \E r \in StatelessIds : StatelessBegin(r)
    \/ \E r \in StatelessIds : StatelessReset(r)
    \/ \E r \in StatelessIds : StatelessLoad(r)
    \/ \E r \in StatelessIds : StatelessQuery(r)
    \/ \E r \in StatelessIds : StatelessFinish(r)

SpecStateless == Init /\ [][NextStateless]_vars

\* SpecPool: the two entry points of the pool side by side: one worker
\* thread serving session requests and one stateless request at a time; the
\* process can be lost and started again.
PoolStateless == "r1"
NextPool ==
    \/ Start
    \/ Crash
    \/ Worker(LifeWorker)
    \/ StatelessBegin(PoolStateless)
    \/ StatelessReset(PoolStateless)
    \/ StatelessLoad(PoolStateless)
    \/ StatelessQuery(PoolStateless)
    \/ StatelessFinish(PoolStateless)

SpecPool == Init /\ [][NextPool]_vars

\* ------------------------------------------------------------------
\* query_validator.validate_sql
\* ------------------------------------------------------------------
\* A query text is a sequence of whitespace-separated tokens: the quote,
\* the comment marks, the newline, two patterns of _SQL_RULES and a
\* harmless word.
MaxSqlLen == 4
SqlTokens == {"'", "--", "/*", "*/", "\n", "pg_read_file", "dblink", "x"}
SqlQueries == UNION {[1..n -> SqlTokens] : n \in 0..MaxSqlLen}
\* _SQL_RULES in table order (two of its rules) with the key of MESSAGES
\* each one answers.
SQL_RULES == <<[pattern |-> "pg_read_file", message |-> "file_read"],
               [pattern |-> "dblink", message |-> "network"]>>

\* re.sub(r'/\*.*?\*/', ' ', query, flags=re.DOTALL): the leftmost "/*"
\* with the nearest "*/" after it, again and again.
RECURSIVE StripBlockComments(_)
StripBlockComments(q) ==
    LET opens == {i \in 1..Len(q) : q[i] = "/*"}
    IN IF opens = {} THEN q
       ELSE LET i == CHOOSE x \in opens : \A y \in opens : x <= y
                closes == {j \in (i + 1)..Len(q) : q[j] = "*/"}
            IN IF closes = {} THEN q
               ELSE LET j == CHOOSE x \in closes : \A y \in closes : x <= y
                    IN SubSeq(q, 1, i - 1) \o <<" ">>
                         \o StripBlockComments(SubSeq(q, j + 1, Len(q)))

\* re.sub(r'--[^\n]*', ' ', query): from "--" up to the newline.
RECURSIVE StripLineComments(_)
StripLineComments(q) ==
    LET starts == {i \in 1..Len(q) : q[i] = "--"}
    IN IF starts = {} THEN q
       ELSE LET i == CHOOSE x \in starts : \A y \in starts : x <= y
                ends == {j \in (i + 1)..Len(q) : q[j] = "\n"}
                j == IF ends = {} THEN Len(q) + 1
                     ELSE CHOOSE x \in ends : \A y \in ends : x <= y
            IN SubSeq(q, 1, i - 1) \o <<" ">>
                 \o StripLineComments(SubSeq(q, j, Len(q)))

\* re.sub(r'\s+', ' ', query).strip(): only the words are left.
IsWord(tok) == tok \notin {" ", "\n"}
strip_sql_comments(query) == SelectSeq(StripLineComments(StripBlockComments(query)), IsWord)

\* validate_sql: the message of the first rule, in table order, whose
\* pattern is found in the cleaned text; "ok" when none is.
validate_sql(query) ==
    LET cleaned == strip_sql_comments(query)
        hits == {r \in 1..Len(SQL_RULES) :
                    \E i \in 1..Len(cleaned) : cleaned[i] = SQL_RULES[r].pattern}
    IN IF hits = {} THEN "ok"
       ELSE SQL_RULES[CHOOSE r \in hits : \A h \in hits : r <= h].message

\* The backend's lexer: the mode it is in after the first n tokens.  A
\* comment mark inside a string literal is part of the literal.
RECURSIVE LexMode(_, _)
LexMode(q, n) ==
    IF n = 0 THEN "code"
    ELSE LET before == LexMode(q, n - 1)
             tok == q[n]
         IN CASE before = "code" ->
                   (CASE tok = "'" -> "string" [] tok = "--" -> "line"
                      [] tok = "/*" -> "block" [] OTHER -> "code")
              [] before = "string" -> (IF tok = "'" THEN "code" ELSE "string")
              [] before = "line" -> (IF tok = "\n" THEN "code" ELSE "line")
              [] OTHER -> (IF tok = "*/" THEN "code" ELSE "block")
\* The rules whose pattern the backend reads outside a comment.
RulesOutsideComments(q) ==
    {r \in 1..Len(SQL_RULES) :
        \E i \in 1..Len(q) :
            q[i] = SQL_RULES[r].pattern /\ LexMode(q, i - 1) \in {"code", "string"}}

\* SpecSql: validate_sql applied to every query text up to MaxSqlLen tokens.
CallValidateSql ==
    /\ call = NoCall
    /\ \E q \in SqlQueries :
         /\ call' = [fn |-> "validate_sql", query |-> q]
         /\ res' = [verdict |-> validate_sql(q)]
    /\ UNCHANGED <<mgrVars, kvVars>>

SpecSql == Init /\ [][CallValidateSql]_vars

\* ------------------------------------------------------------------
\* query_validator.validate_mongodb
\* ------------------------------------------------------------------
\* A query text is a sequence of elements: single characters and whole
\* words.  "a" is a word character; "where", "function" and "mapReduce" are
\* words; the others are not word characters.
MaxMongoLen == 4
MongoElements == {"{", "\"", ",", " ", ":", "a", "$", "where", "function", "mapReduce"}
MongoQueries == UNION {[1..n -> MongoElements] : n \in 0..MaxMongoLen}
WordElement(e) == e \in {"a", "where", "function", "mapReduce"}
\* The code-execution rules of _MONGO_BLOCKED_PATTERNS for $where,
\* $function and mapReduce, in table order: the text between the two \b and
\* the key of MESSAGES.
MONGO_BLOCKED_PATTERNS ==
    <<[pattern |-> <<"$", "where">>, message |-> "system_cmd"],
      [pattern |-> <<"$", "function">>, message |-> "system_cmd"],
      [pattern |-> <<"mapReduce">>, message |-> "system_cmd"]>>

\* \b between the elements at l and l + 1: a word character on exactly one
\* side (the ends of the text count as no word character).
WordAt(q, i) == i >= 1 /\ i <= Len(q) /\ WordElement(q[i])
Boundary(q, l) == WordAt(q, l) # WordAt(q, l + 1)
\* pattern.search(query) for r'\b<pattern>\b'.
Search(pattern, q) ==
    \E i \in 1..Len(q) :
        /\ i + Len(pattern) - 1 <= Len(q)
        /\ SubSeq(q, i, i + Len(pattern) - 1) = pattern
        /\ Boundary(q, i - 1)
        /\ Boundary(q, i + Len(pattern) - 1)

\* validate_mongodb: the message of the first rule that matches, else "ok".
validate_mongodb(query) ==
    LET hits == {r \in 1..Len(MONGO_BLOCKED_PATTERNS) :
                    Search(MONGO_BLOCKED_PATTERNS[r].pattern, query)}
    IN IF hits = {} THEN "ok"
       ELSE MONGO_BLOCKED_PATTERNS[CHOOSE r \in hits : \A h \in hits : r <= h].message

\* SpecMongo: validate_mongodb applied to every text up to MaxMongoLen
\* elements.
CallValidateMongodb ==
    /\ call = NoCall
    /\ \E q \in MongoQueries :
         /\ call' = [fn |-> "validate_mongodb", query |-> q]
         /\ res' = [verdict |-> validate_mongodb(q)]
    /\ UNCHANGED <<mgrVars, kvVars>>

SpecMongo == Init /\ [][CallValidateMongodb]_vars

\* ------------------------------------------------------------------
\* The result an adapter builds from the rows the backend returned
\* (executors/*.py, execute_query)
\* ------------------------------------------------------------------
MAX_RESULT_ROWS == 1000
\* The backend returns no row, or a number of rows within MaxRowsAround of
\* the cap; row i is the number i.
MaxRowsAround == 10
Adapters == {"postgresql", "sqlite", "mariadb", "mongodb", "redis"}
FetchCounts ==
    {0} \cup ((MAX_RESULT_ROWS - MaxRowsAround)..(MAX_RESULT_ROWS + MaxRowsAround))
Fetched(n) == [i \in 1..n |-> i]

\* PostgreSQLExecutor.execute_query cuts the fetched rows at the cap.
PostgresResult(rows) ==
    LET truncated == Len(rows) > MAX_RESULT_ROWS
        kept == IF truncated THEN SubSeq(rows, 1, MAX_RESULT_ROWS) ELSE rows
    IN [success |-> TRUE, rows |-> kept, row_count |-> Len(kept), truncated |-> truncated]

\* The SQLite, MySQL/MariaDB, MongoDB and Redis executors put every fetched
\* row (document, list element) into the result; `truncated` keeps the
\* default of the QueryResult dataclass.
WholeResult(rows) ==
    [success |-> TRUE, rows |-> rows, row_count |-> Len(rows), truncated |-> FALSE]

AdapterResult(adapter, rows) ==
    IF adapter = "postgresql" THEN PostgresResult(rows) ELSE WholeResult(rows)

\* SpecRows: every adapter applied to every fetched row list.
CallExecuteQuery ==
    /\ call = NoCall
    /\ \E a \in Adapters, n \in FetchCounts :
         /\ call' = [fn |-> "execute_query", adapter |-> a, fetched |-> Fetched(n)]
         /\ res' = AdapterResult(a, Fetched(n))
    /\ UNCHANGED <<mgrVars, kvVars>>

SpecRows == Init /\ [][CallExecuteQuery]_vars

\* ------------------------------------------------------------------
\* GradingService (grading/models.py)
\* ------------------------------------------------------------------
\* A student query is a sequence of elements: the word JOIN and the single
\* characters `*` and blank.  A result has one column; a row is the integer
\* in it, which _normalize_value leaves as it is.
MaxQueryLen == 3
MaxRows == 2
MaxRowValue == 2
GradeElements == {"*", " ", "JOIN"}
GradeQueries == UNION {[1..n -> GradeElements] : n \in 0..MaxQueryLen}
ForbiddenLists == {<< >>, <<"*">>}
RequiredLists == {<< >>, <<"JOIN">>, <<"join", "*">>}
RowLists == UNION {[1..n -> 1..MaxRowValue] : n \in 0..MaxRows}
StudentColumns == {<<"id">>, <<"n">>}
MaxScores == {0, 3, 100}
NoExpected == [given |-> FALSE, columns |-> << >>, rows |-> << >>]
ExpectedResults ==
    {NoExpected} \cup {[given |-> TRUE, columns |-> <<"ID">>, rows |-> r] : r \in RowLists}

\* str.upper()
Upper(e) ==
    CASE e = "join" -> "JOIN"
      [] e = "id" -> "ID"
      [] e = "n" -> "N"
      [] OTHER -> e

\* re.search(rf'\b{re.escape(kw.upper())}\b', query_upper): the keyword
\* stands in the query with a word boundary on either side of it.
GradeWordAt(q, i) == i >= 1 /\ i <= Len(q) /\ q[i] = "JOIN"
GradeBoundary(q, l) == GradeWordAt(q, l) # GradeWordAt(q, l + 1)
KeywordFound(kw, query) ==
    \E i \in 1..Len(query) :
        /\ query[i] = Upper(kw)
        /\ GradeBoundary(query, i - 1)
        /\ GradeBoundary(query, i)

\* A check reports `passed` and a score of 100 * score[1] / score[2].
Min(a, b) == IF a <= b THEN a ELSE b
Max(a, b) == IF a >= b THEN a ELSE b

check_forbidden_keywords(query, forbidden) ==
    LET found == {i \in 1..Len(forbidden) : KeywordFound(forbidden[i], query)}
    IN [passed |-> found = {}, score |-> IF found = {} THEN <<1, 1>> ELSE <<0, 1>>]

check_required_keywords(query, required) ==
    LET missing == {i \in 1..Len(required) : ~KeywordFound(required[i], query)}
    IN IF required = << >>
       THEN [passed |-> TRUE, score |-> <<1, 1>>]
       ELSE [passed |-> missing = {},
             score |-> <<Len(required) - Cardinality(missing), Len(required)>>]

\* Every student row that stands among the expected rows counts as a match.
Matches_PerStudentRow(student_rows, expected_rows, order_matters) ==
    Cardinality({i \in 1..Len(student_rows) :
                    \E j \in 1..Len(expected_rows) : student_rows[i] = expected_rows[j]})
\* The rows that match: position by position when the order matters, else
\* the rows common to set(student rows) and set(expected rows).
Matches(student_rows, expected_rows, order_matters) ==
    IF order_matters
    THEN Cardinality({i \in 1..Min(Len(student_rows), Len(expected_rows)) :
                         student_rows[i] = expected_rows[i]})
    ELSE Cardinality({student_rows[i] : i \in 1..Len(student_rows)}
                        \cap {expected_rows[i] : i \in 1..Len(expected_rows)})

check_result_match(student_columns, student_rows, expected, order_matters, partial_match) ==
    LET matches == Matches(student_rows, expected.rows, order_matters)
        total == IF Len(expected.rows) > 0 THEN Len(expected.rows) ELSE 1
    IN IF {Upper(student_columns[i]) : i \in 1..Len(student_columns)}
              # {Upper(expected.columns[i]) : i \in 1..Len(expected.columns)}
       THEN [passed |-> FALSE, score |-> <<0, 1>>]
       ELSE IF Len(student_rows) # Len(expected.rows)
       THEN IF partial_match
            THEN [passed |-> FALSE, score |-> <<matches, Max(Len(expected.rows), 1)>>]
            ELSE [passed |-> FALSE, score |-> <<0, 1>>]
       ELSE [passed |-> matches = total, score |-> <<matches, total>>]

\* round(x, 2) of x = num / den, in hundredths.  Where x lies half-way
\* between two hundredths the float that stands for it decides, so both
\* neighbours can come out.
Round2(num, den, tie_up) ==
    LET q == num \div den
        r == num % den
    IN IF 2 * r < den THEN q
       ELSE IF 2 * r > den THEN q + 1
       ELSE IF tie_up THEN q + 1 ELSE q

\* grade: the checks that apply, with their weights, then the weighted
\* score.  score_parts is the sequence of (score, weight) pairs;
\* the score of the result is kept in hundredths.
ScoreParts(c) ==
    (IF c.forbidden_keywords # << >>
     THEN <<[check |-> check_forbidden_keywords(c.student_query, c.forbidden_keywords),
             weight |-> 20]>>
     ELSE << >>)
    \o (IF c.required_keywords # << >>
        THEN <<[check |-> check_required_keywords(c.student_query, c.required_keywords),
                weight |-> 20]>>
        ELSE << >>)
    \o (IF c.expected_result.given
        THEN <<[check |-> check_result_match(c.student_columns, c.student_rows,
                                             c.expected_result, c.order_matters,
                                             c.partial_match),
                weight |-> 60]>>
        ELSE << >>)

RECURSIVE TotalWeight(_)
TotalWeight(parts) ==
    IF parts = << >> THEN 0 ELSE Head(parts).weight + TotalWeight(Tail(parts))

\* sum(score * weight for score, weight in score_parts) / 100, as a
\* fraction <<numerator, denominator>>.
RECURSIVE WeightedSum(_)
WeightedSum(parts) ==
    IF parts = << >> THEN <<0, 1>>
    ELSE LET h == Head(parts)
             t == WeightedSum(Tail(parts))
         IN <<h.weight * h.check.score[1] * t[2] + t[1] * h.check.score[2],
              h.check.score[2] * t[2]>>

grade(c, tie_up) ==
    LET parts == ScoreParts(c)
        total_weight == TotalWeight(parts)
        weighted_sum == WeightedSum(parts)
    IN IF ~c.success
       THEN [score_x100 |-> 0, max_score |-> c.max_score, is_correct |-> FALSE,
             checks |-> << >>]
       ELSE IF total_weight = 0
       THEN [score_x100 |-> 100 * c.max_score, max_score |-> c.max_score,
             is_correct |-> TRUE, checks |-> << >>]
       ELSE [score_x100 |-> Round2(100 * c.max_score * weighted_sum[1],
                                   weighted_sum[2] * total_weight, tie_up),
             max_score |-> c.max_score,
             is_correct |-> \A i \in 1..Len(parts) : parts[i].check.passed,
             checks |-> [i \in 1..Len(parts) |-> parts[i].check]]

\* SpecGrade: one call of grade on any input within the bounds.
CallGrade ==
    /\ call = NoCall
    /\ \E success \in BOOLEAN, q \in GradeQueries, f \in ForbiddenLists,
          rq \in RequiredLists, sc \in StudentColumns, sr \in RowLists,
          e \in ExpectedResults, om \in BOOLEAN, pm \in BOOLEAN, ms \in MaxScores,
          tie_up \in BOOLEAN :
         LET c == [fn |-> "grade", success |-> success, student_query |-> q,
                   forbidden_keywords |-> f, required_keywords |-> rq,
                   student_columns |-> sc, student_rows |-> sr,
                   expected_result |-> e, order_matters |-> om,
                   partial_match |-> pm, max_score |-> ms]
         IN /\ call' = c
            /\ res' = grade(c, tie_up)
    /\ UNCHANGED <<mgrVars, kvVars>>

SpecGrade == Init /\ [][CallGrade]_vars

\* ------------------------------------------------------------------
\* _create_session for the networked backends, with a failing step
\* (session_manager.py:321-540)
\* ------------------------------------------------------------------
\* The steps of a creation, in the order the code takes them (a kind skips
\* the steps it does not have): the administrator connection makes the
\* schema or database; the executor connects; SET search_path; the schema
\* text; the seed text; the final connect as the restricted user.
NetworkedKinds == {"postgresql", "mariadb", "mongodb", "redis"}
CreateSteps == {"create_isolation", "connect", "search_path", "schema", "seed",
                "student_connect"}
NoFailure == "none"

\* What a creation leaves behind: whether it raised, the executors still
\* connected, and whether the isolation object (schema, database, document
\* database, prefixed keys) exists on the backend.
Outcome(raised, open, isolation) ==
    [raised |-> raised, open |-> open, isolation |-> isolation]

\* _drop_pg_schema / _drop_mariadb_database: best effort, a failure is logged.
AfterDrop(c) == c.drop_fails

\* _create_postgresql_session
create_postgresql_session(c) ==
    IF c.fail_at = "create_isolation" THEN Outcome(TRUE, {}, FALSE)
    ELSE IF c.fail_at = "connect" THEN Outcome(TRUE, {}, TRUE)
    ELSE IF c.fail_at = "search_path" THEN Outcome(TRUE, {"executor"}, TRUE)
    ELSE IF c.schema_sql /\ c.fail_at = "schema" THEN Outcome(TRUE, {}, AfterDrop(c))
    ELSE IF c.seed_sql /\ c.fail_at = "seed" THEN Outcome(TRUE, {}, AfterDrop(c))
    ELSE Outcome(FALSE, {"executor"}, TRUE)

\* _create_mariadb_session
create_mariadb_session(c) ==
    IF c.fail_at = "create_isolation" THEN Outcome(TRUE, {}, FALSE)
    ELSE IF c.fail_at = "connect" THEN Outcome(TRUE, {}, TRUE)
    ELSE IF c.schema_sql /\ c.fail_at = "schema" THEN Outcome(TRUE, {}, AfterDrop(c))
    ELSE IF c.seed_sql /\ c.fail_at = "seed" THEN Outcome(TRUE, {}, AfterDrop(c))
    ELSE IF c.fail_at = "student_connect" THEN Outcome(TRUE, {}, TRUE)
    ELSE Outcome(FALSE, {"executor"}, TRUE)

\* _create_mongodb_session and _create_redis_session: the document database
\* or the prefixed keys exist as soon as a statement of the schema or seed
\* text has written something; c.partial says that the failing text wrote
\* something before it failed.  Neither drops anything on failure.
create_lazy_session(c) ==
    IF c.fail_at = "connect" THEN Outcome(TRUE, {}, FALSE)
    ELSE IF c.schema_sql /\ c.fail_at = "schema" THEN Outcome(TRUE, {}, c.partial)
    ELSE IF c.seed_sql /\ c.fail_at = "seed" THEN Outcome(TRUE, {}, c.schema_sql \/ c.partial)
    ELSE Outcome(FALSE, {"executor"}, c.schema_sql \/ c.seed_sql)

create_session(c) ==
    CASE c.database_type = "postgresql" -> create_postgresql_session(c)
      [] c.database_type = "mariadb" -> create_mariadb_session(c)
      [] OTHER -> create_lazy_session(c)

\* SpecCreate: one creation, any kind, any failing step.
CallCreateSession ==
    /\ call = NoCall
    /\ \E db \in NetworkedKinds, f \in CreateSteps \cup {NoFailure}, schema \in BOOLEAN,
          seed \in BOOLEAN, partial \in BOOLEAN, drop_fails \in BOOLEAN :
         LET c == [fn |-> "create_session", database_type |-> db, fail_at |-> f,
                   schema_sql |-> schema, seed_sql |-> seed, partial |-> partial,
                   drop_fails |-> drop_fails]
         IN /\ call' = c
            /\ res' = create_session(c)
    /\ UNCHANGED <<mgrVars, kvVars>>

SpecCreate == Init /\ [][CallCreateSession]_vars

\* ------------------------------------------------------------------
\* Teardown of one session with a drop that may fail
\* (session_manager.py:544-570 and its four callers)
\* ------------------------------------------------------------------
AllKinds == NetworkedKinds \cup {"sqlite"}
TeardownPaths == {"destroy", "expiry", "kind_change", "stop"}

\* _cleanup_session_resources on a session of kind db whose executor is
\* connected or not and whose isolation object exists or not; drop_fails:
\* the backend refuses the drop (DROP SCHEMA / DROP DATABASE /
\* drop_database / SCAN+DEL raises).  For postgresql and mariadb the
\* executor is disconnected first and the drop helpers catch their own
\* errors; for redis reset() swallows the error and disconnect follows; for
\* mongodb drop_database runs first, and when it raises the surrounding
\* `except Exception` is reached before executor.disconnect().
cleanup_session_resources(db, connected, isolation, drop_fails) ==
    CASE db = "sqlite" -> [connected |-> FALSE, isolation |-> isolation]
      [] db \in {"postgresql", "mariadb"} ->
            [connected |-> FALSE, isolation |-> isolation /\ drop_fails]
      [] db = "mongodb" ->
            IF connected
            THEN IF drop_fails
                 THEN [connected |-> TRUE, isolation |-> isolation]
                 ELSE [connected |-> FALSE, isolation |-> FALSE]
            ELSE [connected |-> FALSE, isolation |-> isolation]
      [] db = "redis" ->
            [connected |-> FALSE,
             isolation |-> isolation /\ (drop_fails \/ ~connected)]

\* The four removal paths: each takes the entry out of the table under the
\* manager lock, then calls _cleanup_session_resources, which raises
\* nothing; all but stop then delete the durable record.
Teardown(c) ==
    LET after == cleanup_session_resources(c.database_type, c.connected, c.isolation,
                                           c.drop_fails)
    IN [in_table |-> FALSE, connected |-> after.connected, isolation |-> after.isolation,
        surfaced |-> FALSE, meta_deleted |-> c.path # "stop"]

\* SpecTeardown: one teardown, any path, any kind.
CallTeardown ==
    /\ call = NoCall
    /\ \E path \in TeardownPaths, db \in AllKinds, connected \in BOOLEAN,
          isolation \in BOOLEAN, drop_fails \in BOOLEAN :
         LET c == [fn |-> "teardown", path |-> path, database_type |-> db,
                   connected |-> connected, isolation |-> isolation,
                   drop_fails |-> drop_fails]
         IN /\ call' = c
            /\ res' = Teardown(c)
    /\ UNCHANGED <<mgrVars, kvVars>>

SpecTeardown == Init /\ [][CallTeardown]_vars

\* ------------------------------------------------------------------
\* initialize_schema / load_data of the adapters (executors/*.py)
\* ------------------------------------------------------------------
\* A schema or seed text is the sequence of its statements, each named by
\* what the backend does with it: it runs ("ok"), the backend rejects it
\* ("rejected": a syntax or constraint error, an unknown command), or it
\* runs out of time ("timeout").
MaxBatch == 3
StatementOutcomes == {"ok", "rejected", "timeout"}
Batches == UNION {[1..n -> StatementOutcomes] : n \in 0..MaxBatch}
BulkLoads == {"initialize_schema", "load_data"}

\* PostgreSQL, SQLite and MySQL hand the statements to the driver, which
\* raises on the first statement that does not run; the adapter turns the
\* driver's error into success = false.
SqlBulkLoad(batch) == \A i \in 1..Len(batch) : batch[i] = "ok"

\* The MongoDB and Redis adapters call their own execute_query per statement
\* inside `try ... except Exception` and drop what it returns.
\* execute_query raises on a timeout and answers a rejected statement
\* (OperationFailure, ResponseError) with a result of success = false.
OwnExecuteBulkLoad(batch) == \A i \in 1..Len(batch) : batch[i] # "timeout"

BulkLoad(adapter, batch) ==
    [success |-> IF adapter \in {"mongodb", "redis"} THEN OwnExecuteBulkLoad(batch)
                 ELSE SqlBulkLoad(batch)]

\* SpecBatch: one bulk load on any adapter.
CallBulkLoad ==
    /\ call = NoCall
    /\ \E fn \in BulkLoads, a \in Adapters, b \in Batches :
         /\ call' = [fn |-> fn, adapter |-> a, batch |-> b]
         /\ res' = BulkLoad(a, b)
    /\ UNCHANGED <<mgrVars, kvVars>>

SpecBatch == Init /\ [][CallBulkLoad]_vars

\* ------------------------------------------------------------------
\* _create_session: the isolation id
\* ------------------------------------------------------------------
\* uuid.uuid4() is a random draw: any value can come out, whatever was drawn
\* before.  A value is modelled by the first twelve digits of its hex form
\* and by the rest of it.
MaxLive == 2
Uuid4Values == [head : {"0a", "1b"}, tail : {"c2", "d3"}]

\* uuid.uuid4().hex[:12]
Hex12(u) == u.head

\* f's_{...}'
IsolationId(u) == <<"s_", Hex12(u)>>

\* The sessions of the table at the time of a creation, by backend kind and
\* isolation id.
LiveTables ==
    {tab \in SUBSET [database_type : NetworkedKinds,
                     isolation_id : {IsolationId(u) : u \in Uuid4Values}] :
        Cardinality(tab) <= MaxLive}

\* _create_session for a networked kind with the value uuid4 returned: the id
\* is not compared with the ids in use, and the backend statement (CREATE
\* SCHEMA / DATABASE IF NOT EXISTS, a lazily made MongoDB database, a Redis
\* key prefix) succeeds on a name that is in use already.
create_session_id(tab, db, u) ==
    [raised |-> FALSE,
     isolation_id |-> IsolationId(u),
     shares |-> {l \in tab : l.database_type = db /\ l.isolation_id = IsolationId(u)}]

\* SpecIso: one creation next to any table of live sessions.
CallCreateSessionId ==
    /\ call = NoCall
    /\ \E tab \in LiveTables, db \in NetworkedKinds, u \in Uuid4Values :
         /\ call' = [fn |-> "create_session_id", live |-> tab, database_type |-> db, uuid4 |-> u]
         /\ res' = create_session_id(tab, db, u)
    /\ UNCHANGED <<mgrVars, kvVars>>

SpecIso == Init /\ [][CallCreateSessionId]_vars

\* ------------------------------------------------------------------
\* Properties
\* ------------------------------------------------------------------
\* The user a stored owner value stands for, whatever its Python type.
OwnerName(o) == heap[o].user_id.val

\* C1: in every reachable state the session table holds at most
\* MAX_SESSIONS entries.
C1_TableWithinCap == TableSize(sessions) <= MAX_SESSIONS

\* Thread t is about to look up, in get_or_create or in execute, a session
\* that is in the table and was created by another user.
C2_ForeignAtGetOrCreate(t) ==
    LET s == sessions[th[t].session_id]
    IN /\ th[t].pc = "goc_fast"
       /\ s # NoObj
       /\ heap[s].database_type = th[t].database_type
       /\ OwnerName(s) # th[t].user_id.val
C2_ForeignAtExecute(t) ==
    LET s == sessions[th[t].session_id]
    IN /\ th[t].pc = "exec_lookup"
       /\ s # NoObj
       /\ OwnerName(s) # th[t].user_id.val

\* C2: when a user other than the owner sends execute_in_session for a
\* session in the table (same kind), the lookup step ends the request with
\* the 'not owner' result, holding no session to run anything on, and
\* changes nothing: the table, the session objects (last_used_at, executor
\* connection, execution lock), the backend and the metadata are as before.
C2_NotOwnerHasNoEffect ==
    [][\A t \in Threads :
         ((C2_ForeignAtGetOrCreate(t) \/ C2_ForeignAtExecute(t)) /\ th'[t] # th[t])
            => /\ th'[t].pc = "done"
               /\ th'[t].result = "not_owner"
               /\ th'[t].session = NoObj
               /\ UNCHANGED <<sessions, heap, backend, meta>>]_vars
C2_Witness ==
    \E t \in Threads :
        LET s == sessions[th[t].session_id]
        IN /\ th[t].pc = "done" /\ th[t].op = "exec" /\ th[t].result = "not_owner"
           /\ th[t].new_session = NoObj
           /\ s # NoObj
           /\ heap[s].database_type = th[t].database_type
           /\ heap[s].user_id # None
           /\ OwnerName(s) # th[t].user_id.val

\* C3: a get_or_create never takes a live session of another user out of the
\* table: whenever a call holds a session it removed for teardown, the caller
\* is the owner of that session.
C3_OnlyOwnerReplaces ==
    \A t \in Threads :
        (th[t].op = "exec" /\ th[t].old_session # NoObj)
            => OwnerName(th[t].old_session) = th[t].user_id.val

\* C4: a get_or_create that lost a creation race is never handed a session
\* owned by a different user.
C4_LoserNotHandedWinner ==
    \A t \in Threads :
        (th[t].new_session # NoObj /\ th[t].ret # NoObj /\ th[t].ret # th[t].new_session)
            => OwnerName(th[t].ret) = th[t].user_id.val

C8_ExpiredNotObservable ==
    [][\A t \in Threads :
         /\ (th[t].pc = "goc_fast" /\ th'[t].ret # NoObj) => ~Expired(th'[t].ret)
         /\ (th[t].pc = "exec_lookup" /\ th'[t].session # NoObj)
               => ~Expired(th'[t].session)]_vars

\* C9: a session without activity for SESSION_TTL + CLEANUP_INTERVAL has been
\* removed: no session stays in the table longer than that after its last use.
C9_IdleSessionRemoved ==
    \A s \in SessionIds :
        sessions[s] # NoObj
            => now - heap[sessions[s]].last_used_at <= SESSION_TTL + CLEANUP_INTERVAL

\* C10: an execute_in_session that rebuilt the session from the durable
\* metadata, sent by the user who created the session, succeeds and sees the
\* seed rows.
C10_RebuildSucceeds ==
    \A t \in Threads :
        (/\ th[t].pc = "done" /\ th[t].op = "exec" /\ th[t].rebuilt
         /\ OwnerName(th[t].ret) = th[t].user_id.val)
            => (th[t].result = "ok" /\ th[t].rows = "seed")

\* The keys of the session whose isolation id is s: those that start "s:".
OwnKeys(s) == {k \in AllKeys : Len(k) >= 2 /\ k[1] = s}
SessionKeys == UNION {OwnKeys(s) : s \in KvSessions}

\* C6: every key the server reads or writes for a command that a Redis
\* session with isolation id P sent (and the validator accepted) starts
\* with "P:".
C6_KeysPrefixed == kvLast.touched \subseteq OwnKeys(kvLast.session)

\* C7: a stateless execution is isolated: its reset step leaves every key
\* of a live session as it was, and its query sees exactly the seed the
\* same request loaded.
C7_StatelessIsolated ==
    [][\A r \in StatelessIds :
         /\ (st[r].pc = "reset" /\ st'[r].pc = "load")
                => \A k \in SessionKeys : store'[k] = store[k]
         /\ (st[r].pc = "query" /\ st'[r].pc = "done")
                => st'[r].saw = (IF st[r].seed.cmd = "SET" THEN <<r>> ELSE Nil)]_vars

\* Thread t is inside the locked part of execute: the reconnect step or
\* executor.execute_query.
InExecutor(t) == th[t].pc \in {"exec_check", "exec_run"}

\* C11: at most one thread is inside the reconnect step or execute_query of
\* a session object, and it holds that session's lock; an execute waits for
\* nothing but the lock of its own session: its lookup can always proceed,
\* and it can enter as soon as no thread is inside the same session,
\* whatever runs on other sessions.
C11_SerialPerSession ==
    /\ \A t1, t2 \in Threads :
         (InExecutor(t1) /\ InExecutor(t2) /\ th[t1].session = th[t2].session) => t1 = t2
    /\ \A t \in Threads : InExecutor(t) => heap[th[t].session].exec_lock = t
    /\ \A t \in Threads : th[t].pc = "exec_lookup" => ENABLED ExecuteLookup(t)
    /\ \A t \in Threads :
         (/\ th[t].pc = "exec_acquire"
          /\ \A o \in Threads : InExecutor(o) => th[o].session # th[t].session)
            => ENABLED ExecuteAcquire(t)
C11_Witness ==
    \E t1, t2 \in Threads :
        /\ th[t1].pc = "exec_run"
        /\ th[t2].pc = "exec_acquire"
        /\ th[t1].session = th[t2].session

C13_OnlyValidatedReachesBackend ==
    \A r \in StatelessIds : \A c \in st[r].sent : validate_redis(c)

\* C16: execute_stateless and execute_in_session hand a QueryResult back for
\* every input and every failure, no exception leaves them, and a stateless
\* request that ended has no executor left connected.
C16_AlwaysQueryResult ==
    /\ \A t \in Threads : th[t].pc = "done" => th[t].result # "raised"
    /\ \A r \in StatelessIds :
         st[r].pc = "done" => (st[r].result # Raised /\ st[r].executor # "connected")

\* C17: every adapter hands back at most MAX_RESULT_ROWS rows: a longer
\* result is cut to its first MAX_RESULT_ROWS rows with truncated = true, a
\* result within the cap comes back whole with truncated = false.
C17_RowsCapped ==
    call.fn = "execute_query" =>
        IF Len(call.fetched) > MAX_RESULT_ROWS
        THEN /\ res.rows = SubSeq(call.fetched, 1, MAX_RESULT_ROWS)
             /\ Len(res.rows) = MAX_RESULT_ROWS
             /\ res.truncated
        ELSE /\ res.rows = call.fetched
             /\ ~res.truncated

\* The number of times row v stands in a row list, and the size of the
\* multiset intersection of two row lists.
RowCount(rows, v) == Cardinality({i \in 1..Len(rows) : rows[i] = v})
RECURSIVE CommonRows(_, _, _)
CommonRows(a, b, v) ==
    IF v = 0 THEN 0 ELSE Min(RowCount(a, v), RowCount(b, v)) + CommonRows(a, b, v - 1)
\* grade ran the result check on results whose columns agree.
ResultChecked ==
    /\ call.fn = "grade"
    /\ call.success
    /\ call.expected_result.given
    /\ Upper(call.student_columns[1]) = Upper(call.expected_result.columns[1])
ResultCheck == res.checks[Len(res.checks)]

\* C18: with order_matters = false the result check compares the rows as
\* multisets: for a student result with as many rows as the expected one
\* (at least one) the score is 100 times the size of the multiset
\* intersection over the number of expected rows, so every permutation of
\* the expected rows, duplicates included, passes with score 100.
C18_MultisetComparison ==
    (/\ ResultChecked
     /\ ~call.order_matters
     /\ Len(call.expected_result.rows) > 0
     /\ Len(call.student_rows) = Len(call.expected_result.rows))
        => LET common == CommonRows(call.student_rows, call.expected_result.rows,
                                    MaxRowValue)
               n == Len(call.expected_result.rows)
           IN /\ ResultCheck.score[1] * n = common * ResultCheck.score[2]
              /\ common = n => ResultCheck.passed

\* A forbidden keyword stands somewhere in the student query.
ForbiddenOccurs ==
    \E i \in 1..Len(call.forbidden_keywords), j \in 1..Len(call.student_query) :
        call.student_query[j] = Upper(call.forbidden_keywords[i])

\* C19: a forbidden keyword that occurs in the student query fails the
\* forbidden-keyword check (check score 0, is_correct false), `*` included;
\* with required [JOIN], forbidden [*], max_score 100, a query with `*` and
\* JOIN and a matching result the score is 80.
C19_ForbiddenStarFails ==
    (call.fn = "grade" /\ call.success /\ ForbiddenOccurs)
        => /\ ~res.checks[1].passed
           /\ res.checks[1].score[1] = 0
           /\ ~res.is_correct
           /\ (/\ call.required_keywords = <<"JOIN">>
               /\ call.max_score = 100
               /\ call.student_query = <<"*", " ", "JOIN">>
               /\ ResultChecked
               /\ call.student_rows = call.expected_result.rows
               /\ call.student_rows # << >>) => res.score_x100 = 80 * 100

\* C20: grade returns 0 <= score <= max_score; when at least one weighted
\* check applied, is_correct implies score = max_score; when the student's
\* execution failed the score is 0 and is_correct is false.
C20_ScoreWithinRange ==
    call.fn = "grade"
        => /\ res.score_x100 >= 0
           /\ res.score_x100 <= 100 * call.max_score
           /\ (res.checks # << >> /\ res.is_correct)
                  => res.score_x100 = 100 * call.max_score
           /\ ~call.success => (res.score_x100 = 0 /\ ~res.is_correct)
C20_Witness ==
    /\ call.fn = "grade"
    /\ call.success
    /\ Len(res.checks) = 3
    /\ res.is_correct
    /\ call.max_score = 3
    /\ Len(call.student_rows) = MaxRows

\* C14: validate_sql rejects every query in which the backend reads a
\* blocked pattern outside a comment, with the message of the first such
\* rule in table order; a comment mark inside a string literal hides
\* nothing.
C14_PatternOutsideCommentRejected ==
    call.fn = "validate_sql" =>
        LET seen == RulesOutsideComments(call.query)
        IN seen # {} =>
             res.verdict = SQL_RULES[CHOOSE r \in seen : \A h \in seen : r <= h].message

\* The query uses the operator `$op` as an object key: the `$` comes after
\* an opening brace, a quote, a comma or a blank, and the name ends there.
UsesOperator(q, op) ==
    \E i \in 2..Len(q) :
        /\ q[i] = "$"
        /\ i + 1 <= Len(q) /\ q[i + 1] = op
        /\ q[i - 1] \in {"{", "\"", ",", " "}
        /\ ~WordAt(q, i + 2)
\* The query contains the word mapReduce.
UsesMapReduce(q) ==
    \E i \in 1..Len(q) : q[i] = "mapReduce" /\ ~WordAt(q, i - 1) /\ ~WordAt(q, i + 1)

\* C15: validate_mongodb answers the system_cmd diagnostic for every query
\* that uses $where or $function as an object key, whatever precedes the
\* `$`, and for every query that contains mapReduce.
C15_OperatorsRejected ==
    (/\ call.fn = "validate_mongodb"
     /\ \/ UsesOperator(call.query, "where")
        \/ UsesOperator(call.query, "function")
        \/ UsesMapReduce(call.query))
        => res.verdict = "system_cmd"

\* C21: SessionManager.execute for a session id that is absent from the
\* table answers SESSION_EXPIRED in that step, runs no query, and leaves the
\* table, the session objects, the backend and the durable metadata as they
\* are.
C21_AbsentIsExpired ==
    [][\A t \in Threads :
         (/\ th[t].pc = "exec_lookup"
          /\ sessions[th[t].session_id] = NoObj
          /\ th'[t] # th[t])
            => /\ th'[t] = [th[t] EXCEPT !.pc = "done", !.result = "SESSION_EXPIRED"]
               /\ th'[t].rows = "none"
               /\ UNCHANGED <<sessions, heap, backend, meta>>]_vars
C21_Witness ==
    \E t \in Threads :
        /\ th[t].pc = "done"
        /\ th[t].op = "exec"
        /\ th[t].result = "SESSION_EXPIRED"
        /\ th[t].ret # NoObj
        /\ sessions[th[t].session_id] = NoObj

\* The steps a thread takes inside `with self._lock:`.
LockBlocks == {"goc_fast", "goc_rebuild_register", "goc_register", "exec_lookup",
               "destroy_pop"}

\* C22: no I/O is done under the manager lock: a step inside a lock block
\* changes nothing on the backends (no isolation object dropped or made),
\* connects or disconnects no executor, and writes nothing to the metadata
\* store.
C22_NoIoUnderLock ==
    [][\A t \in Threads :
         (th[t].pc \in LockBlocks /\ th'[t] # th[t])
            => /\ backend' = backend
               /\ meta' = meta
               /\ \A o \in ObjIds : heap'[o].connected = heap[o].connected]_vars

\* C23: the executor of a session is connected or disconnected only by the
\* thread that holds the session's own lock; in particular, while an
\* execute holds that lock no teardown disconnects the executor.
C23_ExecutorUnderSessionLock ==
    [][\A o \in ObjIds :
         (/\ heap[o].exec_lock # NoThread
          /\ heap'[o].connected # heap[o].connected)
            => th'[heap[o].exec_lock] # th[heap[o].exec_lock]]_vars

\* C24: when a creation fails after its isolation object was made (and the
\* backend accepts a drop), then as the error is returned no executor of
\* that creation is connected and the isolation object is gone.
C24_FailedCreationRolledBack ==
    (/\ call.fn = "create_session"
     /\ res.raised
     /\ call.fail_at # "create_isolation"
     /\ ~call.drop_fails)
        => (res.open = {} /\ ~res.isolation)

\* C25: a teardown whose drop fails still completes: the entry is out of
\* the table, the session's executor is not connected, and the caller sees
\* no failure; on every removal path, for every backend.
C25_TeardownDespiteFailedDrop ==
    (call.fn = "teardown" /\ call.drop_fails)
        => (~res.in_table /\ ~res.connected /\ ~res.surfaced)

\* C26: initialize_schema and load_data answer success = true only if every
\* statement of the text ran on the backend, for every adapter.
C26_BatchSuccessMeansAll ==
    (call.fn \in BulkLoads /\ res.success)
        => \A i \in 1..Len(call.batch) : call.batch[i] = "ok"

\* C27: while the manager is connected to the metadata store, when an
\* execute_in_session has completed successfully on a session, the record
\* session:<id> is live and its TTL was reset to SESSION_TTL by this request,
\* so it runs out SESSION_TTL from now.
C27_TtlRefreshed ==
    \A t \in Threads :
        (/\ th[t].pc = "done" /\ th[t].op = "exec" /\ th[t].result = "ok"
         /\ session_redis)
            => /\ MetaLive(th[t].session_id)
               /\ meta[th[t].session_id].expires_at = now + SESSION_TTL

\* The request that lost the registration race has completed its query on the
\* winner's session while the winner has not yet saved the record.
C27_LoserAheadOfSave ==
    \E t \in Threads, w \in Threads :
        /\ t # w
        /\ th[t].pc = "done" /\ th[t].op = "exec" /\ th[t].result = "ok"
        /\ th[w].pc = "goc_save_meta" /\ th[w].session_id = th[t].session_id
        /\ th[w].new_session = th[t].session
        /\ session_redis
        /\ ~meta[th[t].session_id].present

\* C28: a creation for a networked backend never hands out an isolation id
\* that a live session of the same backend kind uses, so two sessions of one
\* kind in the table never have the same isolation_id.
C28_IsolationIdUnused ==
    (call.fn = "create_session_id" /\ ~res.raised)
        => \A l \in call.live :
              l.database_type = call.database_type => l.isolation_id # res.isolation_id

\* Teardown of session object o has completed: it is out of the table and
\* _cleanup_session_resources has disconnected its executor.
TornDown(o) ==
    /\ heap[o] # Free
    /\ ~heap[o].connected
    /\ \A s \in SessionIds : sessions[s] # o

\* C29: once the teardown of a session has completed, its executor stays
\* disconnected: an execute that took its reference to the session before the
\* removal does not reconnect it afterwards.
C29_TornDownStaysDown ==
    [][\A o \in ObjIds : TornDown(o) => ~heap'[o].connected]_vars

\* C30: a query is run only on the executor of a session whose backend kind
\* is the kind whose validator passed the query: when execute holds a session
\* for a request, the session is of the request's kind, also when a concurrent
\* request replaced the session under the same id by one of another kind.
C30_ValidatedForExecutorKind ==
    \A t \in Threads :
        th[t].pc \in {"exec_acquire", "exec_check", "exec_run"}
            => heap[th[t].session].database_type = th[t].database_type

====
